---- MODULE Spec2Model ----
\* Domain record schema of app/models.py (SQLModel): the tables, their declared
\* column constraints and relationships, and the operations an ORM session
\* performs on them: construct a record, add it and commit, mutate and commit,
\* delete and commit, load a relationship collection.
EXTENDS Integers, Sequences, FiniteSets, TLC

VARIABLES users, chat_sessions, messages, search_queries,
          nelson_chapters, nelson_chunks, pediatric_drugs, drug_dosages,
          emergency_protocols, symptoms, growth_charts,
          next_id, clock, obj, result, read_messages

vars == <<users, chat_sessions, messages, search_queries,
          nelson_chapters, nelson_chunks, pediatric_drugs, drug_dosages,
          emergency_protocols, symptoms, growth_charts,
          next_id, clock, obj, result, read_messages>>

tables == <<users, chat_sessions, messages, search_queries,
            nelson_chapters, nelson_chunks, pediatric_drugs, drug_dosages,
            emergency_protocols, symptoms, growth_charts>>

\* ---------------------------------------------------------------- bounds

\* rows inserted over a run, all tables together
MaxRows == 4
\* largest reading of the clock
MaxClock == 2

\* ----------------------------------------------------------------- enums

UserRole == {"student", "resident", "clinician", "admin"}

MessageRole == {"user", "assistant", "system"}

EmergencyType == {"neonatal_resuscitation", "anaphylaxis", "cardiac_arrest",
                  "respiratory_distress", "seizures", "shock", "poisoning"}

DevelopmentalDomain == {"gross_motor", "fine_motor", "language", "cognitive",
                        "social_emotional", "adaptive"}

DrugUnit == {"mg/kg", "mcg/kg", "units/kg", "ml/kg", "mg/kg/day", "mcg/kg/min"}

\* ------------------------------------------------------- optional values

\* Optional[T]: None is the empty set, a value v is {v}
None == {}

Some(v) == {v}

\* ------------------------------------------------ the email pattern (User)

Letters == {"a", "b", "c", "d", "e", "f", "g", "h", "i", "j", "k", "l", "m",
            "n", "o", "p", "q", "r", "s", "t", "u", "v", "w", "x", "y", "z",
            "A", "B", "C", "D", "E", "F", "G", "H", "I", "J", "K", "L", "M",
            "N", "O", "P", "Q", "R", "S", "T", "U", "V", "W", "X", "Y", "Z"}

Digits == {"0", "1", "2", "3", "4", "5", "6", "7", "8", "9"}

\* [a-zA-Z0-9_.+-]
LocalChars == Letters \cup Digits \cup {"_", ".", "+", "-"}

\* [a-zA-Z0-9-]
DomainChars == Letters \cup Digits \cup {"-"}

\* [a-zA-Z0-9-.]
TailChars == Letters \cup Digits \cup {"-", "."}

\* ^[a-zA-Z0-9_.+-]+@[a-zA-Z0-9-]+\.[a-zA-Z0-9-.]+$ on a sequence of characters:
\* the "@" at i, the "." that ends the domain label at j
EmailMatches(e) ==
    \E i \in 2..Len(e) : \E j \in (i + 2)..(Len(e) - 1) :
        /\ e[i] = "@"
        /\ e[j] = "."
        /\ \A k \in 1..(i - 1) : e[k] \in LocalChars
        /\ \A k \in (i + 1)..(j - 1) : e[k] \in DomainChars
        /\ \A k \in (j + 1)..Len(e) : e[k] \in TailChars

\* --------------------------------------------------------- fixed point

\* a Decimal: coef * 10^(-exp), coef >= 0
Dec(coef, exp) == [coef |-> coef, exp |-> exp]

RECURSIVE Pow10(_)
Pow10(n) == IF n <= 0 THEN 1 ELSE 10 * Pow10(n - 1)

\* numeric equality of Decimals (Decimal("25.000") == Decimal("25"))
DecEq(a, b) == a.coef * Pow10(b.exp) = b.coef * Pow10(a.exp)

\* a NUMERIC column of the given scale: fewer fractional digits are padded,
\* more are rounded (half up) to the scale
Quantize(d, places) ==
    IF d.exp <= places
    THEN Dec(d.coef * Pow10(places - d.exp), places)
    ELSE Dec((d.coef + 5 * Pow10(d.exp - places - 1)) \div Pow10(d.exp - places), places)

DoseAmountPlaces == 3

WeightPlaces == 2

\* min_weight_kg, max_weight_kg: decimal_places=2
StoreWeightKg(d) == Quantize(d, WeightPlaces)

\* a dose column declared with the scale of the weight columns
StoreDoseAmountScale2(d) == Quantize(d, WeightPlaces)

\* dose_amount: decimal_places=3
StoreDoseAmount(d) == Quantize(d, DoseAmountPlaces)

\* ------------------------------------------------------------- inputs

Usernames == {"dr_lee", "dr_kim"}

EmailInputs == { <<"l", "@", "h", ".", "o">>,
                 <<"k", "@", "h", ".", "o">>,
                 <<"l", "e", "e">> }

\* two distinct accounts
AccountInputs == { <<"dr_lee", <<"l", "@", "h", ".", "o">> >>,
                   <<"dr_kim", <<"k", "@", "h", ".", "o">> >> }

\* 0.125, 25.000, 0.5, 0.1255
DoseInputs == {Dec(125, 3), Dec(25000, 3), Dec(5, 1), Dec(1255, 4)}

\* 12.50, 3.5, 3.005
WeightInputs == {Dec(1250, 2), Dec(35, 1), Dec(3005, 3)}

\* candidate primary keys a caller may name, existing or not
Ids == 1..MaxRows

TableNames == {"users", "chat_sessions", "messages", "search_queries",
               "nelson_chapters", "nelson_chunks", "pediatric_drugs",
               "drug_dosages", "emergency_protocols", "symptoms",
               "growth_charts"}

\* no object constructed yet, or the construction raised
NoObj == [cls |-> "none"]

\* ------------------------------------------------------ session helpers

RECURSIVE SumIds(_)
SumIds(ts) ==
    IF ts = {} THEN 0
    ELSE LET t == CHOOSE x \in ts : TRUE
         IN (next_id[t] - 1) + SumIds(ts \ {t})

RowsInserted == SumIds(TableNames)

CanInsert == RowsInserted < MaxRows

\* what the last operation was, how it ended, and how many child rows it cascaded to
Outcome(op, status, n) == [op |-> op, status |-> status, n |-> n]

\* autoincrement primary key: the row gets next_id, which then advances
Advance(t) == next_id' = [next_id EXCEPT ![t] = @ + 1]

IdsOf(rows) == {r.id : r \in rows}

RowOf(rows, id) == CHOOSE r \in rows : r.id = id

\* ---------------------------------------------------------------- User

\* a users table whose email column is not unique
UniqueViolationUsernameOnly(username, email) ==
    \E u \in users : u.username = username

\* unique=True on username and on email
UniqueViolation(username, email) ==
    \E u \in users : u.username = username \/ u.email = email

\* session.add(User(username=..., email=...)); commit.  User is a table model:
\* its constructor assigns the values without running the field validators, so
\* only the database constraints decide.
CreateUser(username, email) ==
    /\ CanInsert
    /\ IF UniqueViolation(username, email)
       THEN /\ result' = Outcome("CreateUser", "IntegrityError", 0)
            /\ UNCHANGED <<users, next_id>>
       ELSE /\ users' = users \cup {[id |-> next_id["users"],
                                     username |-> username, email |-> email]}
            /\ Advance("users")
            /\ result' = Outcome("CreateUser", "ok", 0)
    /\ UNCHANGED <<chat_sessions, messages, search_queries, nelson_chapters,
                   nelson_chunks, pediatric_drugs, drug_dosages,
                   emergency_protocols, symptoms, growth_charts,
                   clock, obj, read_messages>>

\* a search_queries.user_id that is no foreign key
UserReferencedBySessionsOnly(id) ==
    \E s \in chat_sessions : s.user_id = id

\* rows that hold a foreign key to users.id
UserReferenced(id) ==
    \/ \E s \in chat_sessions : s.user_id = id
    \/ \E q \in search_queries : q.user_id = Some(id)

\* session.delete(user); commit.  User.chat_sessions declares no cascade: the
\* sessions would get user_id NULL, which the non-nullable column refuses, and
\* search_queries.user_id is a plain foreign key, so a referenced User stays.
DeleteUser(id) ==
    /\ id \in IdsOf(users)
    /\ IF UserReferenced(id)
       THEN /\ result' = Outcome("DeleteUser", "IntegrityError", 0)
            /\ UNCHANGED users
       ELSE /\ users' = {u \in users : u.id # id}
            /\ result' = Outcome("DeleteUser", "ok", 0)
    /\ UNCHANGED <<chat_sessions, messages, search_queries, nelson_chapters,
                   nelson_chunks, pediatric_drugs, drug_dosages,
                   emergency_protocols, symptoms, growth_charts,
                   next_id, clock, obj, read_messages>>

\* --------------------------------------------------------- ChatSession

\* foreign_key=...: the referenced row must exist
ParentMissing(rows, id) == id \notin IdsOf(rows)

\* created_at and updated_at: default_factory=datetime.utcnow, at construction
CreateChatSession(user_id) ==
    /\ CanInsert
    /\ IF ParentMissing(users, user_id)
       THEN /\ result' = Outcome("CreateChatSession", "IntegrityError", 0)
            /\ UNCHANGED <<chat_sessions, next_id>>
       ELSE /\ chat_sessions' = chat_sessions \cup
                    {[id |-> next_id["chat_sessions"], user_id |-> user_id,
                      created_at |-> clock, updated_at |-> clock,
                      is_archived |-> FALSE]}
            /\ Advance("chat_sessions")
            /\ result' = Outcome("CreateChatSession", "ok", 0)
    /\ UNCHANGED <<users, messages, search_queries, nelson_chapters,
                   nelson_chunks, pediatric_drugs, drug_dosages,
                   emergency_protocols, symptoms, growth_charts,
                   clock, obj, read_messages>>

\* a relationship without cascade_delete: the child rows stay
KeepAll(children, id) == children

\* cascade_delete=True on ChatSession.messages
MessagesAfterDelete(children, id) == {m \in children : m.chat_session_id # id}

\* session.delete(chat_session); commit
DeleteChatSession(id) ==
    /\ id \in IdsOf(chat_sessions)
    /\ chat_sessions' = {s \in chat_sessions : s.id # id}
    /\ messages' = MessagesAfterDelete(messages, id)
    /\ result' = Outcome("DeleteChatSession", "ok",
                         Cardinality({m \in messages : m.chat_session_id = id}))
    /\ UNCHANGED <<users, search_queries, nelson_chapters,
                   nelson_chunks, pediatric_drugs, drug_dosages,
                   emergency_protocols, symptoms, growth_charts,
                   next_id, clock, obj, read_messages>>

\* ------------------------------------------------------------- Message

\* session.add(Message(chat_session_id=...)); commit
CreateMessage(chat_session_id) ==
    /\ CanInsert
    /\ IF ParentMissing(chat_sessions, chat_session_id)
       THEN /\ result' = Outcome("CreateMessage", "IntegrityError", 0)
            /\ UNCHANGED <<messages, next_id>>
       ELSE /\ messages' = messages \cup
                    {[id |-> next_id["messages"], chat_session_id |-> chat_session_id]}
            /\ Advance("messages")
            /\ result' = Outcome("CreateMessage", "ok", 0)
    /\ UNCHANGED <<users, chat_sessions, search_queries, nelson_chapters,
                   nelson_chunks, pediatric_drugs, drug_dosages,
                   emergency_protocols, symptoms, growth_charts,
                   clock, obj, read_messages>>

DeleteMessage(id) ==
    /\ id \in IdsOf(messages)
    /\ messages' = {m \in messages : m.id # id}
    /\ result' = Outcome("DeleteMessage", "ok", 0)
    /\ UNCHANGED <<users, chat_sessions, search_queries, nelson_chapters,
                   nelson_chunks, pediatric_drugs, drug_dosages,
                   emergency_protocols, symptoms, growth_charts,
                   next_id, clock, obj, read_messages>>

\* every order in which a set of ids can be listed
Orders(S) ==
    {f \in [1..Cardinality(S) -> S] :
        \A i, j \in 1..Cardinality(S) : i # j => f[i] # f[j]}

\* chat_session.messages: the relationship declares no order_by, so the
\* collection is loaded by a SELECT without ORDER BY, in whatever order the
\* database returns the rows
ReadMessages(id) ==
    /\ id \in IdsOf(chat_sessions)
    /\ read_messages' \in
           Orders({m.id : m \in {x \in messages : x.chat_session_id = id}})
    /\ result' = Outcome("ReadMessages", "ok", 0)
    /\ UNCHANGED <<tables, next_id, clock, obj>>

\* --------------------------------------------------------- SearchQuery

\* user_id: Optional[int] = Field(default=None, foreign_key="users.id")
CreateSearchQuery(user_id) ==
    /\ CanInsert
    /\ IF user_id # None /\ \E u \in user_id : ParentMissing(users, u)
       THEN /\ result' = Outcome("CreateSearchQuery", "IntegrityError", 0)
            /\ UNCHANGED <<search_queries, next_id>>
       ELSE /\ search_queries' = search_queries \cup
                    {[id |-> next_id["search_queries"], user_id |-> user_id]}
            /\ Advance("search_queries")
            /\ result' = Outcome("CreateSearchQuery", "ok", 0)
    /\ UNCHANGED <<users, chat_sessions, messages, nelson_chapters,
                   nelson_chunks, pediatric_drugs, drug_dosages,
                   emergency_protocols, symptoms, growth_charts,
                   clock, obj, read_messages>>

DeleteSearchQuery(id) ==
    /\ id \in IdsOf(search_queries)
    /\ search_queries' = {q \in search_queries : q.id # id}
    /\ result' = Outcome("DeleteSearchQuery", "ok", 0)
    /\ UNCHANGED <<users, chat_sessions, messages, nelson_chapters,
                   nelson_chunks, pediatric_drugs, drug_dosages,
                   emergency_protocols, symptoms, growth_charts,
                   next_id, clock, obj, read_messages>>

\* ------------------------------------------- NelsonChapter, NelsonChunk

CreateNelsonChapter ==
    /\ CanInsert
    /\ nelson_chapters' = nelson_chapters \cup
           {[id |-> next_id["nelson_chapters"],
             created_at |-> clock, updated_at |-> clock, edition |-> "22nd"]}
    /\ Advance("nelson_chapters")
    /\ result' = Outcome("CreateNelsonChapter", "ok", 0)
    /\ UNCHANGED <<users, chat_sessions, messages, search_queries,
                   nelson_chunks, pediatric_drugs, drug_dosages,
                   emergency_protocols, symptoms, growth_charts,
                   clock, obj, read_messages>>

\* cascade_delete=True on NelsonChapter.chunks
ChunksAfterDelete(children, id) == {c \in children : c.chapter_id # id}

DeleteNelsonChapter(id) ==
    /\ id \in IdsOf(nelson_chapters)
    /\ nelson_chapters' = {c \in nelson_chapters : c.id # id}
    /\ nelson_chunks' = ChunksAfterDelete(nelson_chunks, id)
    /\ result' = Outcome("DeleteNelsonChapter", "ok",
                         Cardinality({c \in nelson_chunks : c.chapter_id = id}))
    /\ UNCHANGED <<users, chat_sessions, messages, search_queries,
                   pediatric_drugs, drug_dosages,
                   emergency_protocols, symptoms, growth_charts,
                   next_id, clock, obj, read_messages>>

CreateNelsonChunk(chapter_id) ==
    /\ CanInsert
    /\ IF ParentMissing(nelson_chapters, chapter_id)
       THEN /\ result' = Outcome("CreateNelsonChunk", "IntegrityError", 0)
            /\ UNCHANGED <<nelson_chunks, next_id>>
       ELSE /\ nelson_chunks' = nelson_chunks \cup
                    {[id |-> next_id["nelson_chunks"], chapter_id |-> chapter_id]}
            /\ Advance("nelson_chunks")
            /\ result' = Outcome("CreateNelsonChunk", "ok", 0)
    /\ UNCHANGED <<users, chat_sessions, messages, search_queries,
                   nelson_chapters, pediatric_drugs, drug_dosages,
                   emergency_protocols, symptoms, growth_charts,
                   clock, obj, read_messages>>

DeleteNelsonChunk(id) ==
    /\ id \in IdsOf(nelson_chunks)
    /\ nelson_chunks' = {c \in nelson_chunks : c.id # id}
    /\ result' = Outcome("DeleteNelsonChunk", "ok", 0)
    /\ UNCHANGED <<users, chat_sessions, messages, search_queries,
                   nelson_chapters, pediatric_drugs, drug_dosages,
                   emergency_protocols, symptoms, growth_charts,
                   next_id, clock, obj, read_messages>>

\* ------------------------------------------- PediatricDrug, DrugDosage

\* session.add(PediatricDrug(min_weight_kg=...)); commit
CreatePediatricDrug(min_weight_kg) ==
    /\ CanInsert
    /\ obj' = [cls |-> "PediatricDrug", min_weight_kg |-> min_weight_kg]
    /\ pediatric_drugs' = pediatric_drugs \cup
           {[id |-> next_id["pediatric_drugs"],
             min_weight_kg |-> {StoreWeightKg(d) : d \in min_weight_kg},
             created_at |-> clock, updated_at |-> clock]}
    /\ Advance("pediatric_drugs")
    /\ result' = Outcome("CreatePediatricDrug", "ok", 0)
    /\ UNCHANGED <<users, chat_sessions, messages, search_queries,
                   nelson_chapters, nelson_chunks, drug_dosages,
                   emergency_protocols, symptoms, growth_charts,
                   clock, read_messages>>

\* cascade_delete=True on PediatricDrug.dosages
DosagesAfterDelete(children, id) == {d \in children : d.drug_id # id}

DeletePediatricDrug(id) ==
    /\ id \in IdsOf(pediatric_drugs)
    /\ pediatric_drugs' = {d \in pediatric_drugs : d.id # id}
    /\ drug_dosages' = DosagesAfterDelete(drug_dosages, id)
    /\ result' = Outcome("DeletePediatricDrug", "ok",
                         Cardinality({d \in drug_dosages : d.drug_id = id}))
    /\ UNCHANGED <<users, chat_sessions, messages, search_queries,
                   nelson_chapters, nelson_chunks,
                   emergency_protocols, symptoms, growth_charts,
                   next_id, clock, obj, read_messages>>

\* session.add(DrugDosage(drug_id=..., dose_amount=...)); commit
CreateDrugDosage(drug_id, dose_amount) ==
    /\ CanInsert
    /\ obj' = [cls |-> "DrugDosage", dose_amount |-> dose_amount]
    /\ IF ParentMissing(pediatric_drugs, drug_id)
       THEN /\ result' = Outcome("CreateDrugDosage", "IntegrityError", 0)
            /\ UNCHANGED <<drug_dosages, next_id>>
       ELSE /\ drug_dosages' = drug_dosages \cup
                    {[id |-> next_id["drug_dosages"], drug_id |-> drug_id,
                      dose_amount |-> StoreDoseAmount(dose_amount)]}
            /\ Advance("drug_dosages")
            /\ result' = Outcome("CreateDrugDosage", "ok", 0)
    /\ UNCHANGED <<users, chat_sessions, messages, search_queries,
                   nelson_chapters, nelson_chunks, pediatric_drugs,
                   emergency_protocols, symptoms, growth_charts,
                   clock, read_messages>>

DeleteDrugDosage(id) ==
    /\ id \in IdsOf(drug_dosages)
    /\ drug_dosages' = {d \in drug_dosages : d.id # id}
    /\ result' = Outcome("DeleteDrugDosage", "ok", 0)
    /\ UNCHANGED <<users, chat_sessions, messages, search_queries,
                   nelson_chapters, nelson_chunks, pediatric_drugs,
                   emergency_protocols, symptoms, growth_charts,
                   next_id, clock, obj, read_messages>>

\* ------------------------------------------ EmergencyProtocol, Symptom

\* session.add(EmergencyProtocol(protocol_type=...)); commit
CreateEmergencyProtocol(protocol_type) ==
    /\ CanInsert
    /\ emergency_protocols' = emergency_protocols \cup
           {[id |-> next_id["emergency_protocols"], protocol_type |-> protocol_type,
             priority_level |-> 1, created_at |-> clock, updated_at |-> clock]}
    /\ Advance("emergency_protocols")
    /\ result' = Outcome("CreateEmergencyProtocol", "ok", 0)
    /\ UNCHANGED <<users, chat_sessions, messages, search_queries,
                   nelson_chapters, nelson_chunks, pediatric_drugs, drug_dosages,
                   symptoms, growth_charts, clock, obj, read_messages>>

\* session.add(Symptom(category=...)); commit
CreateSymptom(category) ==
    /\ CanInsert
    /\ symptoms' = symptoms \cup
           {[id |-> next_id["symptoms"], category |-> category,
             created_at |-> clock, updated_at |-> clock]}
    /\ Advance("symptoms")
    /\ result' = Outcome("CreateSymptom", "ok", 0)
    /\ UNCHANGED <<users, chat_sessions, messages, search_queries,
                   nelson_chapters, nelson_chunks, pediatric_drugs, drug_dosages,
                   emergency_protocols, growth_charts, clock, obj, read_messages>>

\* ------------------------------------------------------------ mutation

\* datetime.utcnow() moves on between operations
Tick ==
    /\ clock < MaxClock
    /\ clock' = clock + 1
    /\ UNCHANGED <<tables, next_id, obj, result, read_messages>>

\* the row `id` of a table with one column assigned: the UPDATE that
\* setattr(row, field, value); commit emits sets the assigned column only.
\* updated_at declares a default_factory and no onupdate, so it keeps the value
\* it got at construction.
Assign(rows, id, field, value) ==
    {IF r.id = id THEN [r EXCEPT ![field] = value] ELSE r : r \in rows}

\* chat_session.is_archived = flag; commit
UpdateChatSession(id, flag) ==
    /\ id \in IdsOf(chat_sessions)
    /\ RowOf(chat_sessions, id).is_archived # flag
    /\ chat_sessions' = Assign(chat_sessions, id, "is_archived", flag)
    /\ result' = Outcome("UpdateChatSession", "ok", 0)
    /\ UNCHANGED <<users, messages, search_queries, nelson_chapters,
                   nelson_chunks, pediatric_drugs, drug_dosages,
                   emergency_protocols, symptoms, growth_charts,
                   next_id, clock, obj, read_messages>>

\* chapter.edition = edition; commit
UpdateNelsonChapter(id, edition) ==
    /\ id \in IdsOf(nelson_chapters)
    /\ RowOf(nelson_chapters, id).edition # edition
    /\ nelson_chapters' = Assign(nelson_chapters, id, "edition", edition)
    /\ result' = Outcome("UpdateNelsonChapter", "ok", 0)
    /\ UNCHANGED <<users, chat_sessions, messages, search_queries,
                   nelson_chunks, pediatric_drugs, drug_dosages,
                   emergency_protocols, symptoms, growth_charts,
                   next_id, clock, obj, read_messages>>

\* drug.min_weight_kg = w; commit
UpdatePediatricDrug(id, min_weight_kg) ==
    /\ id \in IdsOf(pediatric_drugs)
    /\ RowOf(pediatric_drugs, id).min_weight_kg # {StoreWeightKg(d) : d \in min_weight_kg}
    /\ pediatric_drugs' = Assign(pediatric_drugs, id, "min_weight_kg",
                                 {StoreWeightKg(d) : d \in min_weight_kg})
    /\ result' = Outcome("UpdatePediatricDrug", "ok", 0)
    /\ UNCHANGED <<users, chat_sessions, messages, search_queries,
                   nelson_chapters, nelson_chunks, drug_dosages,
                   emergency_protocols, symptoms, growth_charts,
                   next_id, clock, obj, read_messages>>

\* protocol.priority_level = level; commit
UpdateEmergencyProtocol(id, level) ==
    /\ id \in IdsOf(emergency_protocols)
    /\ RowOf(emergency_protocols, id).priority_level # level
    /\ emergency_protocols' = Assign(emergency_protocols, id, "priority_level", level)
    /\ result' = Outcome("UpdateEmergencyProtocol", "ok", 0)
    /\ UNCHANGED <<users, chat_sessions, messages, search_queries,
                   nelson_chapters, nelson_chunks, pediatric_drugs, drug_dosages,
                   symptoms, growth_charts,
                   next_id, clock, obj, read_messages>>

\* symptom.category = category; commit
UpdateSymptom(id, category) ==
    /\ id \in IdsOf(symptoms)
    /\ RowOf(symptoms, id).category # category
    /\ symptoms' = Assign(symptoms, id, "category", category)
    /\ result' = Outcome("UpdateSymptom", "ok", 0)
    /\ UNCHANGED <<users, chat_sessions, messages, search_queries,
                   nelson_chapters, nelson_chunks, pediatric_drugs, drug_dosages,
                   emergency_protocols, growth_charts,
                   next_id, clock, obj, read_messages>>

\* ------------------------------------------------------- GrowthChart

\* sex: str = Field(max_length=10)  # "male", "female", "all"
GrowthChartSexes == {"male", "female", "all"}

\* session.add(GrowthChart(chart_type=..., sex=...)); commit: sex is a plain
\* string column, any text within the column's length is stored
CreateGrowthChart(chart_type, sex) ==
    /\ CanInsert
    /\ growth_charts' = growth_charts \cup
           {[id |-> next_id["growth_charts"], chart_type |-> chart_type, sex |-> sex]}
    /\ Advance("growth_charts")
    /\ result' = Outcome("CreateGrowthChart", "ok", 0)
    /\ UNCHANGED <<users, chat_sessions, messages, search_queries,
                   nelson_chapters, nelson_chunks, pediatric_drugs, drug_dosages,
                   emergency_protocols, symptoms, clock, obj, read_messages>>

DeleteGrowthChart(id) ==
    /\ id \in IdsOf(growth_charts)
    /\ growth_charts' = {g \in growth_charts : g.id # id}
    /\ result' = Outcome("DeleteGrowthChart", "ok", 0)
    /\ UNCHANGED <<users, chat_sessions, messages, search_queries,
                   nelson_chapters, nelson_chunks, pediatric_drugs, drug_dosages,
                   emergency_protocols, symptoms,
                   next_id, clock, obj, read_messages>>

\* ------------------------------------------ construction and validation

UsernameMaxLength == 50

EmailMaxLength == 255

FullNameMaxLength == 100

IndicationMaxLength == 200

DrugNameMaxLength == 200

ChartTypeMaxLength == 50

SexMaxLength == 10

\* the classes declared with table=True
TableModels == {"User", "ChatSession", "Message", "NelsonChunk", "NelsonChapter",
                "PediatricDrug", "DrugDosage", "EmergencyProtocol",
                "DevelopmentalMilestone", "GrowthChart", "Symptom", "SearchQuery"}

\* a required field holds a value
Given(v) == v # None

\* an enumeration field holds a declared value (an Optional one may be None)
EnumFieldDeclared(o) ==
    CASE o.cls \in {"User", "UserCreate"} -> o.role \in UserRole
      [] o.cls \in {"Message", "MessageCreate"} -> o.role \in MessageRole
      [] o.cls = "DrugDosage" -> o.dose_unit \in DrugUnit
      [] o.cls = "EmergencyProtocol" -> o.protocol_type \in EmergencyType
      [] o.cls = "EmergencyProtocolQuery" -> o.protocol_type \subseteq EmergencyType
      [] o.cls = "DevelopmentalMilestone" -> o.domain \in DevelopmentalDomain
      [] o.cls = "MilestoneQuery" -> o.domain \subseteq DevelopmentalDomain
      [] OTHER -> TRUE

\* the constraints the fields of each class declare
FieldsValid(o) ==
    /\ EnumFieldDeclared(o)
    /\ CASE o.cls = "User" ->
               /\ Len(o.username) <= UsernameMaxLength
               /\ Len(o.email) <= EmailMaxLength
               /\ EmailMatches(o.email)
               /\ Given(o.full_name)
               /\ \A n \in o.full_name : Len(n) <= FullNameMaxLength
         [] o.cls = "UserCreate" ->
               /\ Len(o.username) <= UsernameMaxLength
               /\ Len(o.email) <= EmailMaxLength
               /\ Given(o.full_name)
               /\ \A n \in o.full_name : Len(n) <= FullNameMaxLength
         [] o.cls = "DrugDosage" ->
               /\ Len(o.indication) <= IndicationMaxLength
               /\ o.dose_amount.exp <= DoseAmountPlaces
         [] o.cls = "DrugDosageQuery" ->
               /\ Len(o.drug_name) <= DrugNameMaxLength
               /\ o.weight_kg.exp <= WeightPlaces
         [] o.cls = "GrowthChartQuery" ->
               /\ Len(o.chart_type) <= ChartTypeMaxLength
               /\ Len(o.sex) <= SexMaxLength
               /\ o.measurement_value.exp <= WeightPlaces
         [] OTHER -> TRUE

\* SQLModel.__init__: a class with table=False validates the data and raises
\* on a violation; a class with table=True assigns the values it is given
\* without validating them
InitStatus(o) ==
    IF o.cls \in TableModels \/ FieldsValid(o) THEN "ok" ELSE "ValidationError"

\* what cls(**data) leaves the caller with: the object, or nothing when it raised
Constructed(o) == IF InitStatus(o) = "ok" THEN o ELSE NoObj

\* User(...)
ConstructUser(username, email, full_name, role) ==
    LET o == [cls |-> "User", username |-> username, email |-> email,
                  full_name |-> full_name, role |-> role]
    IN /\ result' = Outcome("ConstructUser", InitStatus(o), 0)
       /\ obj' = Constructed(o)
       /\ UNCHANGED <<tables, next_id, clock, read_messages>>

\* UserCreate(...)
ConstructUserCreate(username, email, full_name, role) ==
    LET o == [cls |-> "UserCreate", username |-> username, email |-> email,
                  full_name |-> full_name, role |-> role]
    IN /\ result' = Outcome("ConstructUserCreate", InitStatus(o), 0)
       /\ obj' = Constructed(o)
       /\ UNCHANGED <<tables, next_id, clock, read_messages>>

\* Message(...)
ConstructMessage(role) ==
    LET o == [cls |-> "Message", role |-> role]
    IN /\ result' = Outcome("ConstructMessage", InitStatus(o), 0)
       /\ obj' = Constructed(o)
       /\ UNCHANGED <<tables, next_id, clock, read_messages>>

\* MessageCreate(...)
ConstructMessageCreate(role) ==
    LET o == [cls |-> "MessageCreate", role |-> role]
    IN /\ result' = Outcome("ConstructMessageCreate", InitStatus(o), 0)
       /\ obj' = Constructed(o)
       /\ UNCHANGED <<tables, next_id, clock, read_messages>>

\* DrugDosage(...)
ConstructDrugDosage(indication, dose_amount, dose_unit) ==
    LET o == [cls |-> "DrugDosage", indication |-> indication,
                  dose_amount |-> dose_amount, dose_unit |-> dose_unit]
    IN /\ result' = Outcome("ConstructDrugDosage", InitStatus(o), 0)
       /\ obj' = Constructed(o)
       /\ UNCHANGED <<tables, next_id, clock, read_messages>>

\* DrugDosageQuery(...)
ConstructDrugDosageQuery(drug_name, weight_kg) ==
    LET o == [cls |-> "DrugDosageQuery", drug_name |-> drug_name,
                  weight_kg |-> weight_kg]
    IN /\ result' = Outcome("ConstructDrugDosageQuery", InitStatus(o), 0)
       /\ obj' = Constructed(o)
       /\ UNCHANGED <<tables, next_id, clock, read_messages>>

\* EmergencyProtocol(...)
ConstructEmergencyProtocol(protocol_type) ==
    LET o == [cls |-> "EmergencyProtocol", protocol_type |-> protocol_type]
    IN /\ result' = Outcome("ConstructEmergencyProtocol", InitStatus(o), 0)
       /\ obj' = Constructed(o)
       /\ UNCHANGED <<tables, next_id, clock, read_messages>>

\* EmergencyProtocolQuery(...)
ConstructEmergencyProtocolQuery(protocol_type) ==
    LET o == [cls |-> "EmergencyProtocolQuery", protocol_type |-> protocol_type]
    IN /\ result' = Outcome("ConstructEmergencyProtocolQuery", InitStatus(o), 0)
       /\ obj' = Constructed(o)
       /\ UNCHANGED <<tables, next_id, clock, read_messages>>

\* DevelopmentalMilestone(...)
ConstructDevelopmentalMilestone(domain) ==
    LET o == [cls |-> "DevelopmentalMilestone", domain |-> domain]
    IN /\ result' = Outcome("ConstructDevelopmentalMilestone", InitStatus(o), 0)
       /\ obj' = Constructed(o)
       /\ UNCHANGED <<tables, next_id, clock, read_messages>>

\* MilestoneQuery(...)
ConstructMilestoneQuery(domain) ==
    LET o == [cls |-> "MilestoneQuery", domain |-> domain]
    IN /\ result' = Outcome("ConstructMilestoneQuery", InitStatus(o), 0)
       /\ obj' = Constructed(o)
       /\ UNCHANGED <<tables, next_id, clock, read_messages>>

\* GrowthChartQuery(...)
ConstructGrowthChartQuery(chart_type, sex, measurement_value) ==
    LET o == [cls |-> "GrowthChartQuery", chart_type |-> chart_type, sex |-> sex,
                  measurement_value |-> measurement_value]
    IN /\ result' = Outcome("ConstructGrowthChartQuery", InitStatus(o), 0)
       /\ obj' = Constructed(o)
       /\ UNCHANGED <<tables, next_id, clock, read_messages>>

\* inputs of the constructors

UsernameInputs == Usernames \cup {"dr_xxxxxxxxxxxxxxxxxxxxxxxxxxxxxxxxxxxxxxxxxxxxxxxx"}

\* "l@h" has an "@" and no domain segment
EmailShapes == EmailInputs \cup { <<"l", "@", "h">> }

FullNameInputs == {None, Some("A. Lee")}

IndicationInputs == {"otitis media", "fever yyyyyyyyyyyyyyyyyyyyyyyyyyyyyyyyyyyyyyyyyyyyyyyyyyyyyyyyyyyyyyyyyyyyyyyyyyyyyyyyyyyyyyyyyyyyyyyyyyyyyyyyyyyyyyyyyyyyyyyyyyyyyyyyyyyyyyyyyyyyyyyyyyyyyyyyyyyyyyyyyyyyyyyyyyyyyyyyyyyyyyyyyyyyyyyyyyy"}

SexInputs == GrowthChartSexes \cup {"unknown"}

\* ------------------------------------------------------ specifications

Init ==
    /\ users = {}
    /\ chat_sessions = {}
    /\ messages = {}
    /\ search_queries = {}
    /\ nelson_chapters = {}
    /\ nelson_chunks = {}
    /\ pediatric_drugs = {}
    /\ drug_dosages = {}
    /\ emergency_protocols = {}
    /\ symptoms = {}
    /\ growth_charts = {}
    /\ next_id = [t \in TableNames |-> 1]
    /\ clock = 0
    /\ obj = NoObj
    /\ result = Outcome("init", "ok", 0)
    /\ read_messages = <<>>

\* the relational operations on every table that holds or is named by a
\* foreign key: create and delete
Next ==
    \/ \E a \in AccountInputs : CreateUser(a[1], a[2])
    \/ \E id \in Ids : DeleteUser(id)
    \/ \E id \in Ids : CreateChatSession(id)
    \/ \E id \in Ids : DeleteChatSession(id)
    \/ \E id \in Ids : CreateMessage(id)
    \/ \E id \in Ids : DeleteMessage(id)
    \/ \E u \in {None} \cup {Some(id) : id \in Ids} : CreateSearchQuery(u)
    \/ \E id \in Ids : DeleteSearchQuery(id)
    \/ CreateNelsonChapter
    \/ \E id \in Ids : DeleteNelsonChapter(id)
    \/ \E id \in Ids : CreateNelsonChunk(id)
    \/ \E id \in Ids : DeleteNelsonChunk(id)
    \/ CreatePediatricDrug(None)
    \/ \E id \in Ids : DeletePediatricDrug(id)
    \/ \E id \in Ids : CreateDrugDosage(id, Dec(125, 3))
    \/ \E id \in Ids : DeleteDrugDosage(id)

Spec == Init /\ [][Next]_vars

\* accounts and conversations: users, sessions, their messages, and loading
\* session.messages
NextChat ==
    \/ \E u \in Usernames, e \in EmailInputs : CreateUser(u, e)
    \/ \E id \in Ids : DeleteUser(id)
    \/ \E id \in Ids : CreateChatSession(id)
    \/ \E id \in Ids : DeleteChatSession(id)
    \/ \E id \in Ids : CreateMessage(id)
    \/ \E id \in Ids : DeleteMessage(id)
    \/ \E id \in Ids : ReadMessages(id)

SpecChat == Init /\ [][NextChat]_vars

\* the fixed-point columns of the drug tables
NextDrug ==
    \/ \E w \in {None} \cup {Some(d) : d \in WeightInputs} : CreatePediatricDrug(w)
    \/ \E id \in Ids : DeletePediatricDrug(id)
    \/ \E id \in Ids, d \in DoseInputs : CreateDrugDosage(id, d)
    \/ \E id \in Ids : DeleteDrugDosage(id)

SpecDrug == Init /\ [][NextDrug]_vars

\* the timestamped entities over time: create, mutate, and the clock
NextTime ==
    \/ Tick
    \/ CreateUser("dr_lee", <<"l", "@", "h", ".", "o">>)
    \/ \E id \in Ids : CreateChatSession(id)
    \/ \E id \in Ids, flag \in BOOLEAN : UpdateChatSession(id, flag)
    \/ CreateNelsonChapter
    \/ \E id \in Ids, e \in {"21st", "22nd"} : UpdateNelsonChapter(id, e)
    \/ CreatePediatricDrug(None)
    \/ \E id \in Ids, w \in {None, Some(Dec(1250, 2))} : UpdatePediatricDrug(id, w)
    \/ CreateEmergencyProtocol("anaphylaxis")
    \/ \E id \in Ids, l \in 1..2 : UpdateEmergencyProtocol(id, l)
    \/ CreateSymptom("respiratory")
    \/ \E id \in Ids, c \in {"respiratory", "gastrointestinal"} : UpdateSymptom(id, c)

SpecTime == Init /\ [][NextTime]_vars

\* constructing records and input shapes, without a session
NextValidate ==
    \/ \E u \in UsernameInputs, e \in EmailShapes, n \in FullNameInputs,
          r \in {"student", "admin", "superuser"} : ConstructUser(u, e, n, r)
    \/ \E u \in UsernameInputs, e \in EmailShapes, n \in FullNameInputs,
          r \in {"student", "admin", "superuser"} : ConstructUserCreate(u, e, n, r)
    \/ \E r \in MessageRole \cup {"tool"} : ConstructMessage(r)
    \/ \E r \in MessageRole \cup {"tool"} : ConstructMessageCreate(r)
    \/ \E i \in IndicationInputs, d \in DoseInputs, u \in DrugUnit \cup {"g"} :
          ConstructDrugDosage(i, d, u)
    \/ \E n \in IndicationInputs, w \in WeightInputs : ConstructDrugDosageQuery(n, w)
    \/ \E t \in EmergencyType \cup {"drowning"} : ConstructEmergencyProtocol(t)
    \/ \E t \in {None} \cup {Some(x) : x \in EmergencyType \cup {"drowning"}} :
          ConstructEmergencyProtocolQuery(t)
    \/ \E d \in DevelopmentalDomain \cup {"sensory"} : ConstructDevelopmentalMilestone(d)
    \/ \E d \in {None} \cup {Some(x) : x \in DevelopmentalDomain \cup {"sensory"}} :
          ConstructMilestoneQuery(d)

SpecValidate == Init /\ [][NextValidate]_vars

\* growth charts: the stored records and the query shape
NextGrowth ==
    \/ \E x \in SexInputs : CreateGrowthChart("weight-for-age", x)
    \/ \E id \in Ids : DeleteGrowthChart(id)
    \/ \E x \in {"female", "unknown"}, v \in {Dec(1250, 2), Dec(3005, 3)} :
          ConstructGrowthChartQuery("weight-for-age", x, v)

SpecGrowth == Init /\ [][NextGrowth]_vars

\* ------------------------------------------------------------- claims

\* C1: deleting a ChatSession, a NelsonChapter or a PediatricDrug removes its
\* Messages, NelsonChunks or DrugDosages: no Message, NelsonChunk or DrugDosage
\* exists whose parent row is absent.
C1_NoOrphanedChildren ==
    /\ \A m \in messages : m.chat_session_id \in IdsOf(chat_sessions)
    /\ \A c \in nelson_chunks : c.chapter_id \in IdsOf(nelson_chapters)
    /\ \A d \in drug_dosages : d.drug_id \in IdsOf(pediatric_drugs)

\* a ChatSession that owned Messages has just been deleted
C1_Witness ==
    /\ result.op = "DeleteChatSession"
    /\ result.n > 0
    /\ next_id["messages"] > 1

\* C2: no two persisted Users share a username or an email, and a rejected
\* attempt to persist a User leaves the persisted Users unchanged.
C2_UniqueUsers ==
    /\ [](\A u, v \in users :
            u # v => u.username # v.username /\ u.email # v.email)
    /\ [][(result'.op = "CreateUser" /\ result'.status = "IntegrityError")
            => users' = users]_vars

\* a second User with a taken username or email has just been refused
C2_Witness ==
    /\ result = Outcome("CreateUser", "IntegrityError", 0)
    /\ users # {}

\* C3: every non-null foreign key names a persisted row, also once a User that
\* owns ChatSessions or SearchQueries has been the target of a delete; a
\* SearchQuery may have no user.
C3_ForeignKeysResolve ==
    /\ \A s \in chat_sessions : s.user_id \in IdsOf(users)
    /\ \A q \in search_queries : q.user_id \subseteq IdsOf(users)
    /\ \A m \in messages : m.chat_session_id \in IdsOf(chat_sessions)
    /\ \A c \in nelson_chunks : c.chapter_id \in IdsOf(nelson_chapters)
    /\ \A d \in drug_dosages : d.drug_id \in IdsOf(pediatric_drugs)

\* the delete of a User that owns a SearchQuery has just been attempted, and
\* an anonymous SearchQuery is stored
C3_Witness ==
    /\ result = Outcome("DeleteUser", "IntegrityError", 0)
    /\ \E q \in search_queries : q.user_id # None
    /\ \E q \in search_queries : q.user_id = None

\* C4: a record constructed with an enumerated field outside its declared set
\* is rejected at construction, so no constructed record holds an undeclared
\* enumeration value.
C4_EnumRejectedAtConstruction ==
    obj # NoObj => EnumFieldDeclared(obj)

\* C5: no persisted User has an email that fails the declared email pattern.
C5_PersistedEmailsMatch ==
    \A u \in users : EmailMatches(u.email)

\* C6: a dose_amount with at most 3 fractional digits, and a weight with at
\* most 2, reads back from the stored row equal to the value given.
C6_FixedPointRoundTrip ==
    /\ (result = Outcome("CreateDrugDosage", "ok", 0)
           /\ obj.dose_amount.exp <= DoseAmountPlaces)
        => DecEq(RowOf(drug_dosages, next_id["drug_dosages"] - 1).dose_amount,
                 obj.dose_amount)
    /\ result = Outcome("CreatePediatricDrug", "ok", 0)
        => \A w \in obj.min_weight_kg :
              w.exp <= WeightPlaces
              => \E r \in RowOf(pediatric_drugs, next_id["pediatric_drugs"] - 1).min_weight_kg :
                    DecEq(r, w)

\* 0.125 has just been stored as a dose_amount and the row holds 0.125
C6_Witness ==
    /\ result = Outcome("CreateDrugDosage", "ok", 0)
    /\ obj.dose_amount = Dec(125, 3)
    /\ RowOf(drug_dosages, next_id["drug_dosages"] - 1).dose_amount = Dec(125, 3)

\* the rows of a table and of its next state that are one record, mutated
Mutated(before, after) ==
    {p \in before \X after : p[1].id = p[2].id /\ p[1] # p[2]}

\* C7: every mutation of a ChatSession, NelsonChapter, PediatricDrug,
\* EmergencyProtocol or Symptom made after the clock has moved on advances the
\* record's updated_at and keeps its created_at.
C7_UpdatedAtAdvances ==
    [][\A p \in Mutated(chat_sessions, chat_sessions')
              \cup Mutated(nelson_chapters, nelson_chapters')
              \cup Mutated(pediatric_drugs, pediatric_drugs')
              \cup Mutated(emergency_protocols, emergency_protocols')
              \cup Mutated(symptoms, symptoms') :
          /\ p[2].created_at = p[1].created_at
          /\ clock > p[1].updated_at => p[2].updated_at > p[1].updated_at]_vars

\* C8: a construction given a value that violates a field constraint (length,
\* precision, pattern, enumeration, required field) fails with a validation
\* error: every construction that succeeded satisfies its class's constraints.
C8_ViolationFailsAtConstruction ==
    (result.status = "ok" /\ obj # NoObj) => FieldsValid(obj)

\* C9: every persisted GrowthChart has sex male, female or all.
C9_GrowthChartSexDeclared ==
    \A g \in growth_charts : g.sex \in GrowthChartSexes

\* C10: loading the messages of a ChatSession returns them in the order they
\* were added (ascending autoincrement id).
C10_MessagesInInsertionOrder ==
    result.op = "ReadMessages"
        => \A i, j \in 1..Len(read_messages) :
              i < j => read_messages[i] < read_messages[j]

====
